---- MODULE Spec2Model ----
(***************************************************************************)
(* A model of common-ml's annotation tooling:                               *)
(*   dl/annotation_processing.py  bbox2yolo, TXTAnnotations, JSON2TXT       *)
(*   dl/annotate/analyse.py       counter                                   *)
(*   helpers/path_and_files_processing.py  get_filename, combine_path,      *)
(*                                          get_files                       *)
(* The text of a file is a sequence of one-character strings, lines ending  *)
(* in "\n", so that readlines, split, int(), str() and the rewrite by       *)
(* seek, write and truncate are modelled by what they do to that text.      *)
(***************************************************************************)
EXTENDS Integers, Sequences, FiniteSets, TLC

VARIABLES
    kind,            \* "TXTAnnotations" or "JSON2TXT": the class of the store object
    classes_config,  \* self.classes_config, as the sequence its iteration yields
    images,          \* names of the files in images_path
    txt,             \* the txt_path directory: base name -> [exists, data]
    prev,            \* txt as it was when the last call started
    op,              \* the last call made
    filename,        \* its filename argument
    arg,             \* its other argument (to_remove, to_replace_with, classes, ...)
    order,           \* the order in which glob listed the files for the last call
    failedAt,        \* index in order of the file the last call raised in, 0 if none
    err,             \* the exception the last call raised, "none" if it returned
    ret,             \* the value the last call returned
    prevCall,        \* <<op, filename>> of the call before the last
    nops,            \* number of calls made so far
    pc               \* position in the remove / reconfigure / remove scenario

vars == <<kind, classes_config, images, txt, prev, op, filename, arg, order,
          failedAt, err, ret, prevCall, nops, pc>>

-----------------------------------------------------------------------------
(* Bounds of the model *)

\* class ids of the inputs range over 0..MaxId
MaxId == 3
\* longest Class Config drawn for update_classes
MaxCfgLen == 4
\* most lines an annotation file starts with
MaxLines == 2
\* most calls made on one store
MaxOps == 1
\* most runs of add_txt / empty_txt in the backfill scenario
MaxRuns == 2
\* image sizes range over 0..MaxDim, box corners over 0..MaxDim + 1
MaxDim == 4
\* bits in the significand of the model's floats (53 in a Python float)
Prec == 4

-----------------------------------------------------------------------------
(* Text: characters, str() and int() *)

Digits == <<"0", "1", "2", "3", "4", "5", "6", "7", "8", "9">>

IsDigit(c) == \E i \in 1..10 : Digits[i] = c

DigitVal(c) == (CHOOSE i \in 1..10 : Digits[i] = c) - 1

RECURSIVE StrNat(_)
StrNat(n) == IF n < 10 THEN <<Digits[n + 1]>>
             ELSE StrNat(n \div 10) \o <<Digits[(n % 10) + 1]>>

\* str(i), as the f-string formats an int
Str(i) == IF i < 0 THEN <<"-">> \o StrNat(-i) ELSE StrNat(i)

RECURSIVE NatOf(_)
NatOf(s) == IF s = <<>> THEN 0
            ELSE 10 * NatOf(SubSeq(s, 1, Len(s) - 1)) + DigitVal(s[Len(s)])

AllDigits(s) == Len(s) > 0 /\ \A i \in 1..Len(s) : IsDigit(s[i])

\* int(tok) succeeds: an optional sign and at least one digit (the alphabet of
\* the model has no other character that int() accepts)
IsInt(tok) == \/ AllDigits(tok)
              \/ Len(tok) > 1 /\ tok[1] = "-" /\ AllDigits(Tail(tok))

IntOf(tok) == IF tok[1] = "-" THEN 0 - NatOf(Tail(tok)) ELSE NatOf(tok)

\* index of the first occurrence of character c in s, 0 if there is none
RECURSIVE FindFrom(_, _, _)
FindFrom(s, c, i) == IF i > Len(s) THEN 0
                     ELSE IF s[i] = c THEN i
                     ELSE FindFrom(s, c, i + 1)

Find(s, c) == FindFrom(s, c, 1)

\* file.readlines(): the lines of data, each with its "\n" (the last may lack it)
RECURSIVE Readlines(_)
Readlines(data) ==
    IF data = <<>> THEN <<>>
    ELSE LET n == Find(data, "\n")
         IN  IF n = 0 THEN <<data>>
             ELSE <<SubSeq(data, 1, n)>> \o Readlines(SubSeq(data, n + 1, Len(data)))

\* line.split(' ', 1)
SplitOnce(line) ==
    LET n == Find(line, " ")
    IN  IF n = 0 THEN <<line>>
        ELSE <<SubSeq(line, 1, n - 1), SubSeq(line, n + 1, Len(line))>>

-----------------------------------------------------------------------------
(* TXTAnnotations.update_classes *)

In(x, s) == x \in s

\* a loop whose `shift += 1` is outside the if: it counts every class seen
RECURSIVE UpdateLoopShiftsAll(_, _, _, _, _)
UpdateLoopShiftsAll(cfg, to_remove, i, keep, shift) ==
    IF i > Len(cfg) THEN keep
    ELSE LET old_class == cfg[i]
         IN  IF In(old_class, to_remove) \/ old_class \in DOMAIN keep
             THEN UpdateLoopShiftsAll(cfg, to_remove, i + 1, keep, shift + 1)
             ELSE UpdateLoopShiftsAll(cfg, to_remove, i + 1,
                             [k \in DOMAIN keep \cup {old_class} |->
                                 IF k = old_class THEN old_class - shift ELSE keep[k]],
                             shift + 1)

\* the for loop of update_classes from position i on
RECURSIVE UpdateLoop(_, _, _, _, _)
UpdateLoop(cfg, to_remove, i, keep, shift) ==
    IF i > Len(cfg) THEN keep
    ELSE LET old_class == cfg[i]
         IN  IF In(old_class, to_remove)
             THEN UpdateLoop(cfg, to_remove, i + 1, keep, shift + 1)
             ELSE IF old_class \notin DOMAIN keep
             THEN UpdateLoop(cfg, to_remove, i + 1,
                             [k \in DOMAIN keep \cup {old_class} |->
                                 IF k = old_class THEN old_class - shift ELSE keep[k]],
                             shift)
             ELSE UpdateLoop(cfg, to_remove, i + 1, keep, shift)

EmptyDict == [k \in {} |-> 0]

\* update_classes without its check of the Class Config
ConfigNeverMissing(cfg) == FALSE

\* `not self.classes_config`
ConfigMissing(cfg) == Len(cfg) = 0

update_classes(cfg, to_remove) ==
    IF ConfigMissing(cfg)
    THEN [err |-> "ValueError", keep |-> EmptyDict]
    ELSE [err |-> "none", keep |-> UpdateLoop(cfg, to_remove, 1, EmptyDict, 0)]

-----------------------------------------------------------------------------
(* The state the parts of a specification that do not use the directory keep *)

NoFile == [exists |-> FALSE, data |-> <<>>]

RECURSIVE SeqsUpTo(_, _)
SeqsUpTo(S, n) == IF n = 0 THEN {<<>>}
                  ELSE LET shorter == SeqsUpTo(S, n - 1)
                       IN  shorter \cup {Append(s, x) : s \in shorter, x \in S}

Ids == 0..MaxId

-----------------------------------------------------------------------------
(* helpers/path_and_files_processing.py *)

\* file names of the model, as character sequences
Star == <<"*">>
ImageNames == { <<"a", ".", "j">>, <<"a", ".", "p">>, <<"c", ".", "t", ".", "j">> }

\* os.path.split(path)[-1].split('.', 1)[0]: the name up to its first dot
get_filename(name) ==
    LET n == Find(name, ".")
    IN  IF n = 0 THEN name ELSE SubSeq(name, 1, n - 1)

TxtExt == <<"t", "x", "t">>

\* combine_path(folder, filename, extension), relative to the folder
combine_path(name, extension) ==
    IF extension = <<>> THEN name ELSE name \o <<".">> \o extension

\* base names of the files the txt_path directory can hold: one for each image
\* and one that belongs to no image
TxtBases == { get_filename(i) : i \in ImageNames } \cup { <<"b">> }

\* glob matching of a pattern that is "*", "*.txt" or has no wildcard
Matches(pattern, name) ==
    \/ pattern = Star
    \/ pattern = name
    \/ /\ pattern = Star \o <<".">> \o TxtExt
       /\ Len(name) >= 4
       /\ SubSeq(name, Len(name) - 3, Len(name)) = <<".">> \o TxtExt

\* get_files(self.txt_path, filename), as the base names of the files found
TxtFiles(dir, pattern) ==
    { b \in DOMAIN dir : dir[b].exists /\ Matches(pattern, combine_path(b, TxtExt)) }

\* get_files(self.images_path, filename)
ImageFiles(imgs, pattern) == { i \in imgs : Matches(pattern, i) }

\* the orders in which glob may list the files of S
Orders(S) ==
    { s \in [1..Cardinality(S) -> S] : \A i, j \in DOMAIN s : s[i] = s[j] => i = j }

-----------------------------------------------------------------------------
(* The read-modify-truncate-write of one file opened 'r+' *)

\* file.seek(0) after readlines
Seek0(data) == [data |-> data, pos |-> 0]

\* file.write(out): overwrites from the position on, extending the file
Write(fh, out) ==
    [data |-> SubSeq(fh.data, 1, fh.pos) \o out
              \o SubSeq(fh.data, fh.pos + Len(out) + 1, Len(fh.data)),
     pos  |-> fh.pos + Len(out)]

\* a rewrite that forgets file.truncate()
TruncateSkipped(fh) == fh

\* file.truncate(): cuts the file at the position
Truncate(fh) == [data |-> SubSeq(fh.data, 1, fh.pos), pos |-> fh.pos]

-----------------------------------------------------------------------------
(* TXTAnnotations.remove_class *)

\* the loop over new_txt from line i on; an exception leaves the with block,
\* which closes the file as written so far, without truncate
RECURSIVE RemoveLines(_, _, _, _, _)
RemoveLines(lines, i, fh, keep, to_remove) ==
    IF i > Len(lines) THEN [fh |-> Truncate(fh), err |-> "none"]
    ELSE LET parts == SplitOnce(lines[i])
         IN  IF Len(parts) # 2 THEN [fh |-> fh, err |-> "ValueError"]
             ELSE IF ~IsInt(parts[1]) THEN [fh |-> fh, err |-> "ValueError"]
             ELSE LET cur_class == IntOf(parts[1])
                  IN  IF In(cur_class, to_remove)
                      THEN RemoveLines(lines, i + 1, fh, keep, to_remove)
                      ELSE IF cur_class \notin DOMAIN keep
                      THEN [fh |-> fh, err |-> "KeyError"]
                      ELSE RemoveLines(lines, i + 1,
                               Write(fh, Str(keep[cur_class]) \o <<" ">> \o parts[2]),
                               keep, to_remove)

RemoveFile(data, keep, to_remove) ==
    RemoveLines(Readlines(data), 1, Seek0(data), keep, to_remove)

\* the loop over get_files from file i of the listing on
RECURSIVE RemoveFiles(_, _, _, _, _)
RemoveFiles(dir, ord, i, keep, to_remove) ==
    IF i > Len(ord) THEN [txt |-> dir, err |-> "none", failedAt |-> 0]
    ELSE LET r == RemoveFile(dir[ord[i]].data, keep, to_remove)
             d == [dir EXCEPT ![ord[i]].data = r.fh.data]
         IN  IF r.err # "none" THEN [txt |-> d, err |-> r.err, failedAt |-> i]
             ELSE RemoveFiles(d, ord, i + 1, keep, to_remove)

remove_class(cfg, dir, to_remove, ord) ==
    LET u == update_classes(cfg, to_remove)
    IN  IF u.err # "none" THEN [txt |-> dir, err |-> u.err, failedAt |-> 0]
        ELSE RemoveFiles(dir, ord, 1, u.keep, to_remove)

-----------------------------------------------------------------------------
(* TXTAnnotations.replace_classes; the dict to_replace_with is the sequence of
   its (key, value) items in insertion order *)

DictHas(d, k) == \E i \in 1..Len(d) : d[i][1] = k

DictGet(d, k) == d[CHOOSE i \in 1..Len(d) : d[i][1] = k][2]

\* what iterating the dict yields: its keys
DictKeys(d) == [i \in 1..Len(d) |-> d[i][1]]

RECURSIVE ReplaceLines(_, _, _, _)
ReplaceLines(lines, i, fh, to_replace_with) ==
    IF i > Len(lines) THEN [fh |-> Truncate(fh), err |-> "none"]
    ELSE LET parts == SplitOnce(lines[i])
         IN  IF Len(parts) # 2 THEN [fh |-> fh, err |-> "ValueError"]
             ELSE IF ~IsInt(parts[1]) THEN [fh |-> fh, err |-> "ValueError"]
             ELSE LET cur_class == IntOf(parts[1])
                  IN  IF ~DictHas(to_replace_with, cur_class)
                      THEN [fh |-> fh, err |-> "KeyError"]
                      ELSE ReplaceLines(lines, i + 1,
                               Write(fh, Str(DictGet(to_replace_with, cur_class))
                                         \o <<" ">> \o parts[2]),
                               to_replace_with)

ReplaceFile(data, to_replace_with) ==
    ReplaceLines(Readlines(data), 1, Seek0(data), to_replace_with)

\* a loop over the files that goes on to the next file after a failure
RECURSIVE ReplaceFilesGoOn(_, _, _, _)
ReplaceFilesGoOn(dir, ord, i, to_replace_with) ==
    IF i > Len(ord) THEN [txt |-> dir, err |-> "none", failedAt |-> 0]
    ELSE LET r == ReplaceFile(dir[ord[i]].data, to_replace_with)
             d == [dir EXCEPT ![ord[i]].data = r.fh.data]
             rest == ReplaceFilesGoOn(d, ord, i + 1, to_replace_with)
         IN  IF r.err # "none" THEN [txt |-> rest.txt, err |-> r.err, failedAt |-> i]
             ELSE rest

RECURSIVE ReplaceFiles(_, _, _, _)
ReplaceFiles(dir, ord, i, to_replace_with) ==
    IF i > Len(ord) THEN [txt |-> dir, err |-> "none", failedAt |-> 0]
    ELSE LET r == ReplaceFile(dir[ord[i]].data, to_replace_with)
             d == [dir EXCEPT ![ord[i]].data = r.fh.data]
         IN  IF r.err # "none" THEN [txt |-> d, err |-> r.err, failedAt |-> i]
             ELSE ReplaceFiles(d, ord, i + 1, to_replace_with)

replace_classes(dir, to_replace_with, ord) == ReplaceFiles(dir, ord, 1, to_replace_with)

-----------------------------------------------------------------------------
(* TXTAnnotations.empty_txt and add_txt *)

\* open(txt, 'w').close() on every listed file
empty_txt(dir, files) ==
    [b \in DOMAIN dir |-> IF b \in files THEN [exists |-> TRUE, data |-> <<>>] ELSE dir[b]]

\* an add_txt that opens the file 'w+' whether or not it exists
AddOneAlways(dir, img) ==
    [dir EXCEPT ![get_filename(img)] = [exists |-> TRUE, data |-> <<>>]]

\* what add_txt does for one image
AddOne(dir, img) ==
    LET txt_file == get_filename(img)
    IN  IF ~dir[txt_file].exists
        THEN [dir EXCEPT ![txt_file] = [exists |-> TRUE, data |-> <<>>]]
        ELSE dir

RECURSIVE AddFiles(_, _, _)
AddFiles(dir, ord, i) ==
    IF i > Len(ord) THEN dir ELSE AddFiles(AddOne(dir, ord[i]), ord, i + 1)

add_txt(dir, ord) == AddFiles(dir, ord, 1)

-----------------------------------------------------------------------------
(* Specification SpecRemap: update_classes on every Class Config *)

InitRemap ==
    /\ kind = "TXTAnnotations"
    /\ classes_config \in SeqsUpTo(Ids, MaxCfgLen)
    /\ images = {}
    /\ txt = <<>>
    /\ prev = <<>>
    /\ op = "init"
    /\ filename = <<>>
    /\ arg = {}
    /\ order = <<>>
    /\ failedAt = 0
    /\ err = "none"
    /\ ret = EmptyDict
    /\ prevCall = <<"init", <<>>>>
    /\ nops = 0
    /\ pc = "start"

UpdateClassesCall ==
    /\ op = "init"
    /\ \E to_remove \in SUBSET Ids :
          LET r == update_classes(classes_config, to_remove)
          IN  /\ op' = "update_classes"
              /\ arg' = to_remove
              /\ err' = r.err
              /\ ret' = r.keep
    /\ nops' = nops + 1
    /\ UNCHANGED <<kind, classes_config, images, txt, prev, filename, order,
                   failedAt, prevCall, pc>>

NextRemap == UpdateClassesCall

SpecRemap == InitRemap /\ [][NextRemap]_vars

-----------------------------------------------------------------------------
(* dl/annotate/analyse.py: counter.  A key of the dict cnt is <<"int", n>> for
   the int n or <<"str", t>> for the string t: Python keeps 0 and "0" apart *)

IntKey(n) == <<"int", n>>
StrKey(t) == <<"str", t>>

\* the characters of the model in the order of their code points
Alphabet == <<"\n", " ", "*", "-", ".", "0", "1", "2", "3", "4", "5", "6", "7", "8", "9",
              "a", "b", "c", "j", "p", "t", "x", "y", "z">>

\* s < t for two strings
RECURSIVE StrLess(_, _)
StrLess(s, t) ==
    IF t = <<>> THEN FALSE
    ELSE IF s = <<>> THEN TRUE
    ELSE IF Head(s) # Head(t) THEN Find(Alphabet, Head(s)) < Find(Alphabet, Head(t))
    ELSE StrLess(Tail(s), Tail(t))

\* k1 < k2 for two keys of one type
KeyLess(k1, k2) == IF k1[1] = "int" THEN k1[2] < k2[2] ELSE StrLess(k1[2], k2[2])

\* comparing an int with a str raises TypeError
Mixed(keys) == \E k1, k2 \in keys : k1[1] # k2[1]

RECURSIVE SortKeys(_)
SortKeys(keys) ==
    IF keys = {} THEN <<>>
    ELSE LET least == CHOOSE k \in keys : \A other \in keys \ {k} : KeyLess(k, other)
         IN  <<least>> \o SortKeys(keys \ {least})

\* sorted(cnt.items())
SortedItems(cnt) ==
    IF Mixed(DOMAIN cnt) THEN [err |-> "TypeError", items |-> <<>>]
    ELSE LET ks == SortKeys(DOMAIN cnt)
         IN  [err |-> "none", items |-> [i \in 1..Len(ks) |-> <<ks[i], cnt[ks[i]]>>]]

\* the tally a class gets when it is first seen
FirstSeen == -1

\* cnt after `if clss not in cnt: cnt[clss] = -1` and `cnt[clss] += 1`
Tally(cnt, key) ==
    LET c == IF key \in DOMAIN cnt THEN cnt
             ELSE [k \in DOMAIN cnt \cup {key} |-> IF k = key THEN FirstSeen ELSE cnt[k]]
    IN  [c EXCEPT ![key] = @ + 1]

\* the while loop over one file from line i on: it ends at the end of the file
\* or at a line whose first token is empty
RECURSIVE CountLines(_, _, _)
CountLines(lines, i, cnt) ==
    IF i > Len(lines) THEN cnt
    ELSE LET clss == SplitOnce(lines[i])[1]
         IN  IF clss = <<>> THEN cnt
             ELSE CountLines(lines, i + 1, Tally(cnt, StrKey(clss)))

RECURSIVE CountFiles(_, _, _, _)
CountFiles(dir, ord, i, cnt) ==
    IF i > Len(ord) THEN cnt
    ELSE CountFiles(dir, ord, i + 1, CountLines(Readlines(dir[ord[i]].data), 1, cnt))

\* glob(f'{path}/{filename}.txt') for a filename that is "*" or has no wildcard
CounterFiles(dir, pattern) ==
    { b \in DOMAIN dir : dir[b].exists
                          /\ Matches(combine_path(pattern, TxtExt), combine_path(b, TxtExt)) }

counter(dir, classes, ord) ==
    LET zero == [k \in { classes[i] : i \in 1..Len(classes) } |-> 0]
    IN  SortedItems(CountFiles(dir, ord, 1, zero))

-----------------------------------------------------------------------------
(* Floats: a float is the rational n/d it stands for, kept as [n, d] with
   d > 0.  Every operation yields the exact result rounded to the nearest
   number with a significand of Prec bits, ties to even, as IEEE 754 division
   and multiplication do (the exponent range is not modelled) *)

RECURSIVE Pow2(_)
Pow2(k) == IF k = 0 THEN 1 ELSE 2 * Pow2(k - 1)

\* n/d * 2^-e brought into [2^(Prec-1), 2^Prec): the exponent e and the scaled
\* fraction
RECURSIVE Normalise(_, _, _)
Normalise(n, d, e) ==
    IF n < Pow2(Prec - 1) * d THEN Normalise(2 * n, d, e - 1)
    ELSE IF n >= Pow2(Prec) * d THEN Normalise(n, 2 * d, e + 1)
    ELSE [n |-> n, d |-> d, e |-> e]

\* the significand n/d rounded to an integer, ties to even
NearestEven(n, d) ==
    LET m == n \div d
        r == n - m * d
    IN  IF 2 * r > d THEN m + 1
        ELSE IF 2 * r = d THEN m + (m % 2)
        ELSE m

\* the float nearest to n/d, for n >= 0 and d > 0
RoundPos(n, d) ==
    IF n = 0 THEN [n |-> 0, d |-> 1]
    ELSE LET s == Normalise(n, d, 0)
             m == NearestEven(s.n, s.d)
         IN  IF s.e >= 0 THEN [n |-> m * Pow2(s.e), d |-> 1]
             ELSE [n |-> m, d |-> Pow2(0 - s.e)]

\* the float nearest to n/d, for d > 0
Fl(n, d) ==
    IF n < 0 THEN [n |-> 0 - RoundPos(0 - n, d).n, d |-> RoundPos(0 - n, d).d]
    ELSE RoundPos(n, d)

\* a * b and i * b for floats a, b and an int i
FlMul(a, b) == Fl(a.n * b.n, a.d * b.d)

\* i / j for ints i and j > 0
FlDiv(i, j) == Fl(i, j)

\* float(i)
FlInt(i) == Fl(i, 1)

-----------------------------------------------------------------------------
(* bbox2yolo *)

\* a bbox2yolo whose centre is not halved
bbox2yoloNoHalf(width, height, xmin, ymin, xmax, ymax) ==
    LET dw == FlDiv(1, width)
        dh == FlDiv(1, height)
    IN  <<FlMul(FlInt(xmin + xmax), dw), FlMul(FlInt(ymin + ymax), dh),
          FlMul(FlInt(xmax - xmin), dw), FlMul(FlInt(ymax - ymin), dh)>>

bbox2yolo(width, height, xmin, ymin, xmax, ymax) ==
    LET dw == FlDiv(1, width)
        dh == FlDiv(1, height)
        x  == FlMul(FlDiv(xmin + xmax, 2), dw)
        y  == FlMul(FlDiv(ymin + ymax, 2), dh)
        w  == FlMul(FlInt(xmax - xmin), dw)
        h  == FlMul(FlInt(ymax - ymin), dh)
    IN  <<x, y, w, h>>

-----------------------------------------------------------------------------
(* Specification Spec: calls on a store over a directory of annotation files *)

\* records annotation files start with
Lines == { <<"0", " ", "x", "\n">>, <<"1", " ", "y", "y", "\n">>, <<"2", " ", "x", "\n">> }
\* a file whose second line has no space
Malformed == <<"1", " ", "y", "y", "\n", "z", "\n">>

RECURSIVE Concat(_)
Concat(ls) == IF ls = <<>> THEN <<>> ELSE Head(ls) \o Concat(Tail(ls))

InitData == { Concat(ls) : ls \in SeqsUpTo(Lines, MaxLines) } \cup { Malformed }

File(data) == [exists |-> TRUE, data |-> data]

\* Class Configs a store is constructed with
StoreConfigs == { <<>>, <<0, 1, 2>>, <<0, 2>> }

\* arguments of the calls
ToRemoveArgs == { {}, {1}, {0, 1} }
ToReplaceArgs == { <<>>, << <<0, 1>>, <<1, 0>>, <<2, 2>> >>, << <<0, 10>>, <<1, 0>> >> }
TxtPatterns == { Star, <<"a", ".", "t", "x", "t">> }
ImagePatterns == { Star, <<"c", ".", "t", ".", "j">> }

Init ==
    /\ kind \in {"TXTAnnotations", "JSON2TXT"}
    \* JSON2TXT.__init__ passes no classes_config to TXTAnnotations.__init__
    /\ classes_config \in IF kind = "JSON2TXT" THEN {<<>>} ELSE StoreConfigs
    /\ images = ImageNames
    /\ \E fa \in {NoFile} \cup { File(d) : d \in InitData },
          fb \in {NoFile, File(<<"1", " ", "y", "y", "\n", "0", " ", "x", "\n">>),
                  File(<<"2", " ", "x", "\n">>)},
          fc \in {NoFile, File(<<"0", " ", "x", "\n", "2", " ", "x", "\n">>)} :
          txt = [b \in TxtBases |-> IF b = <<"a">> THEN fa
                                    ELSE IF b = <<"b">> THEN fb ELSE fc]
    /\ prev = txt
    /\ op = "init"
    /\ filename = <<>>
    /\ arg = {}
    /\ order = <<>>
    /\ failedAt = 0
    /\ err = "none"
    /\ ret = EmptyDict
    /\ prevCall = <<"init", <<>>>>
    /\ nops = 0
    /\ pc = "start"

\* what every call records
Called(limit, name, pattern, a, ord) ==
    /\ nops < limit
    /\ op' = name
    /\ filename' = pattern
    /\ arg' = a
    /\ order' = ord
    /\ prev' = txt
    /\ prevCall' = <<op, filename>>
    /\ nops' = nops + 1
    /\ UNCHANGED <<kind, images, pc>>

EmptyTxtCall(limit) ==
    \E pattern \in TxtPatterns :
        /\ Called(limit, "empty_txt", pattern, {}, <<>>)
        /\ txt' = empty_txt(txt, TxtFiles(txt, pattern))
        /\ err' = "none"
        /\ failedAt' = 0
        /\ ret' = EmptyDict
        /\ UNCHANGED classes_config

AddTxtCall(limit) ==
    \E pattern \in ImagePatterns :
        \E ord \in Orders(ImageFiles(images, pattern)) :
            /\ Called(limit, "add_txt", pattern, {}, ord)
            /\ txt' = add_txt(txt, ord)
            /\ err' = "none"
            /\ failedAt' = 0
            /\ ret' = EmptyDict
            /\ UNCHANGED classes_config

EmptyTxt == EmptyTxtCall(MaxOps)

AddTxt == AddTxtCall(MaxOps)

UpdateClasses ==
    \E to_remove \in ToRemoveArgs :
        LET r == update_classes(classes_config, to_remove)
        IN  /\ Called(MaxOps, "update_classes", <<>>, to_remove, <<>>)
            /\ err' = r.err
            /\ ret' = r.keep
            /\ failedAt' = 0
            /\ UNCHANGED <<classes_config, txt>>

RemoveClass ==
    \E to_remove \in ToRemoveArgs, pattern \in TxtPatterns :
        \E ord \in Orders(TxtFiles(txt, pattern)) :
            LET r == remove_class(classes_config, txt, to_remove, ord)
            IN  /\ Called(MaxOps, "remove_class", pattern, to_remove, ord)
                /\ txt' = r.txt
                /\ err' = r.err
                /\ failedAt' = r.failedAt
                /\ ret' = EmptyDict
                /\ UNCHANGED classes_config

ReplaceClasses ==
    \E to_replace_with \in ToReplaceArgs, pattern \in TxtPatterns :
        \E ord \in Orders(TxtFiles(txt, pattern)) :
            LET r == replace_classes(txt, to_replace_with, ord)
            IN  /\ Called(MaxOps, "replace_classes", pattern, to_replace_with, ord)
                /\ classes_config' = DictKeys(to_replace_with)
                /\ txt' = r.txt
                /\ err' = r.err
                /\ failedAt' = r.failedAt
                /\ ret' = EmptyDict

Next == EmptyTxt \/ AddTxt \/ UpdateClasses \/ RemoveClass \/ ReplaceClasses

Spec == Init /\ [][Next]_vars

-----------------------------------------------------------------------------
(* Specification SpecBackfill: runs of add_txt and empty_txt over every set of
   images and directories of files with and without content *)

BackfillFiles ==
    { NoFile, File(<<>>), File(<<"0", " ", "x", "\n">>),
      File(<<"1", " ", "y", "y", "\n", "2", " ", "x", "\n">>) }

InitBackfill ==
    /\ kind = "TXTAnnotations"
    /\ classes_config = <<0, 1, 2>>
    /\ images \in SUBSET ImageNames
    /\ txt \in [TxtBases -> BackfillFiles]
    /\ prev = txt
    /\ op = "init"
    /\ filename = <<>>
    /\ arg = {}
    /\ order = <<>>
    /\ failedAt = 0
    /\ err = "none"
    /\ ret = EmptyDict
    /\ prevCall = <<"init", <<>>>>
    /\ nops = 0
    /\ pc = "start"

BackfillAdd == AddTxtCall(MaxRuns)

BackfillEmpty == EmptyTxtCall(MaxRuns)

NextBackfill == BackfillAdd \/ BackfillEmpty

SpecBackfill == InitBackfill /\ [][NextBackfill]_vars

-----------------------------------------------------------------------------
(* Specification SpecIdem: remove_class, the Class Config set to the survivors,
   and remove_class again with the same arguments *)

IdemConfigs == { <<>>, <<0, 1, 2>>, <<0, 2>>, <<0, 1, 1, 2>>, <<2, 0, 1>> }

InitIdem ==
    /\ kind = "TXTAnnotations"
    /\ classes_config \in IdemConfigs
    /\ images = ImageNames
    /\ \E fa \in {NoFile} \cup { File(d) : d \in InitData },
          fb \in {NoFile, File(<<"1", " ", "y", "y", "\n", "0", " ", "x", "\n">>)},
          fc \in {NoFile, File(<<"0", " ", "x", "\n", "2", " ", "x", "\n">>)} :
          txt = [b \in TxtBases |-> IF b = <<"a">> THEN fa
                                    ELSE IF b = <<"b">> THEN fb ELSE fc]
    /\ prev = txt
    /\ op = "init"
    /\ filename = <<>>
    /\ arg = {}
    /\ order = <<>>
    /\ failedAt = 0
    /\ err = "none"
    /\ ret = [err |-> "none", keep |-> EmptyDict, changed |-> FALSE]
    /\ prevCall = <<"init", <<>>>>
    /\ nops = 0
    /\ pc = "start"

\* the first run; ret keeps its outcome and the remap it used
FirstRemove ==
    /\ pc = "start"
    /\ \E to_remove \in SUBSET {0, 1, 2}, pattern \in TxtPatterns :
          \E ord \in Orders(TxtFiles(txt, pattern)) :
              LET r == remove_class(classes_config, txt, to_remove, ord)
              IN  /\ op' = "remove_class"
                  /\ filename' = pattern
                  /\ arg' = to_remove
                  /\ order' = ord
                  /\ txt' = r.txt
                  /\ err' = r.err
                  /\ failedAt' = r.failedAt
                  /\ ret' = [err |-> r.err,
                             keep |-> update_classes(classes_config, to_remove).keep,
                             changed |-> r.txt # txt]
    /\ prev' = txt
    /\ prevCall' = <<op, filename>>
    /\ nops' = nops + 1
    /\ pc' = "removed"
    /\ UNCHANGED <<kind, images, classes_config>>

\* the ids of cfg that are not removed, in cfg's order
SurvivorSeq(cfg, to_remove) ==
    LET Stays(c) == ~In(c, to_remove) IN SelectSeq(cfg, Stays)

\* self.classes_config set to the survivors: under their old ids, or under
\* the ids the first run gave them
Reconfigure ==
    /\ pc = "removed"
    /\ LET old == SurvivorSeq(classes_config, arg)
       IN  \/ classes_config' = old
           \/ /\ ret.err = "none"
              /\ classes_config' = [i \in 1..Len(old) |-> ret.keep[old[i]]]
    /\ pc' = "reconfigured"
    /\ UNCHANGED <<kind, images, txt, prev, op, filename, arg, order, failedAt, err,
                   ret, prevCall, nops>>

\* the second run, with the arguments of the first
SecondRemove ==
    /\ pc = "reconfigured"
    /\ \E ord \in Orders(TxtFiles(txt, filename)) :
          LET r == remove_class(classes_config, txt, arg, ord)
          IN  /\ order' = ord
              /\ txt' = r.txt
              /\ err' = r.err
              /\ failedAt' = r.failedAt
    /\ prev' = txt
    /\ prevCall' = <<op, filename>>
    /\ nops' = nops + 1
    /\ pc' = "done"
    /\ UNCHANGED <<kind, images, classes_config, op, filename, arg, ret>>

NextIdem == FirstRemove \/ Reconfigure \/ SecondRemove

SpecIdem == InitIdem /\ [][NextIdem]_vars

-----------------------------------------------------------------------------
(* Specification SpecCount: counter over directories of annotation files *)

\* a file whose second line starts with a space
SpaceFirst == <<"0", " ", "x", "\n", " ", "x", "\n", "1", " ", "y", "y", "\n">>

\* the classes argument: nothing, ints, ints out of order, strings
CountClasses ==
    { <<>>,
      <<IntKey(0), IntKey(1), IntKey(2)>>,
      <<IntKey(2), IntKey(0)>>,
      <<StrKey(<<"0">>), StrKey(<<"1">>), StrKey(<<"2">>)>> }

CountPatterns == { Star, <<"a">> }

InitCount ==
    /\ kind = "TXTAnnotations"
    /\ classes_config = <<>>
    /\ images = ImageNames
    /\ \E fa \in {NoFile} \cup { File(d) : d \in InitData \cup {SpaceFirst} },
          fb \in {NoFile, File(<<"0", " ", "x", "\n">>)},
          fc \in {NoFile, File(<<"0", " ", "x", "\n", "2", " ", "x", "\n">>)} :
          txt = [b \in TxtBases |-> IF b = <<"a">> THEN fa
                                    ELSE IF b = <<"b">> THEN fb ELSE fc]
    /\ prev = txt
    /\ op = "init"
    /\ filename = <<>>
    /\ arg = <<>>
    /\ order = <<>>
    /\ failedAt = 0
    /\ err = "none"
    /\ ret = <<>>
    /\ prevCall = <<"init", <<>>>>
    /\ nops = 0
    /\ pc = "start"

Counter ==
    \E classes \in CountClasses, pattern \in CountPatterns :
        \E ord \in Orders(CounterFiles(txt, pattern)) :
            LET r == counter(txt, classes, ord)
            IN  /\ Called(MaxOps, "counter", pattern, classes, ord)
                /\ err' = r.err
                /\ ret' = r.items
                /\ failedAt' = 0
                /\ UNCHANGED <<classes_config, txt>>

NextCount == Counter

SpecCount == InitCount /\ [][NextCount]_vars

-----------------------------------------------------------------------------
(* Specification SpecGeom: bbox2yolo on every image size and pair of corners *)

InitGeom ==
    /\ kind = "TXTAnnotations"
    /\ classes_config = <<>>
    /\ images = {}
    /\ txt = <<>>
    /\ prev = <<>>
    /\ op = "init"
    /\ filename = <<>>
    /\ arg \in (0..MaxDim) \X (0..MaxDim) \X (0..(MaxDim + 1)) \X (0..(MaxDim + 1))
               \X (0..(MaxDim + 1)) \X (0..(MaxDim + 1))
    /\ order = <<>>
    /\ failedAt = 0
    /\ err = "none"
    /\ ret = <<>>
    /\ prevCall = <<"init", <<>>>>
    /\ nops = 0
    /\ pc = "start"

\* 1 / width and 1 / height raise ZeroDivisionError for a zero size
Bbox2yolo ==
    /\ Called(MaxOps, "bbox2yolo", <<>>, arg, <<>>)
    /\ IF arg[1] = 0 \/ arg[2] = 0
       THEN err' = "ZeroDivisionError" /\ ret' = <<>>
       ELSE /\ err' = "none"
            /\ ret' = bbox2yolo(arg[1], arg[2], arg[3], arg[4], arg[5], arg[6])
    /\ failedAt' = 0
    /\ UNCHANGED <<classes_config, txt>>

NextGeom == Bbox2yolo

SpecGeom == InitGeom /\ [][NextGeom]_vars

-----------------------------------------------------------------------------
(* What the claims speak of: the records of a file and the files of a call *)

\* the lines of data all split into a class id and a rest
WellFormed(data) ==
    \A i \in 1..Len(Readlines(data)) :
        LET parts == SplitOnce(Readlines(data)[i])
        IN  Len(parts) = 2 /\ IsInt(parts[1])

\* the records of a well-formed file: <<class id, rest of the line>>
RecordsOf(data) ==
    [i \in 1..Len(Readlines(data)) |->
        LET parts == SplitOnce(Readlines(data)[i])
        IN  <<IntOf(parts[1]), parts[2]>>]

\* records written one per line, class id first
RECURSIVE Render(_)
Render(recs) ==
    IF recs = <<>> THEN <<>>
    ELSE Str(Head(recs)[1]) \o <<" ">> \o Head(recs)[2] \o Render(Tail(recs))

\* the files the last call listed
Listed == { order[i] : i \in 1..Len(order) }

\* the ids of cfg that are not removed
Survivors(cfg, removed) == { cfg[i] : i \in 1..Len(cfg) } \ removed

-----------------------------------------------------------------------------
(* C1, C2: update_classes, under SpecRemap *)

\* C1: update_classes is order-preserving: of two surviving class ids, the one
\* that comes first in the Class Config gets the smaller new id.
C1_OrderPreserving ==
    (op = "update_classes" /\ err = "none") =>
        \A a, b \in Survivors(classes_config, arg) :
            Find(classes_config, a) < Find(classes_config, b) =>
                /\ a \in DOMAIN ret
                /\ b \in DOMAIN ret
                /\ ret[a] < ret[b]

\* C2: update_classes is gap-free from 0: when N distinct class ids survive,
\* the new ids are exactly 0..N-1.
C2_GapFree ==
    (op = "update_classes" /\ err = "none") =>
        { ret[k] : k \in DOMAIN ret }
            = 0..(Cardinality(Survivors(classes_config, arg)) - 1)

-----------------------------------------------------------------------------
(* C3, C5, C9: calls on the store, under Spec *)

\* the records of data without those of the removed classes, renumbered by remap
KeptRenumbered(data, removed, remap) ==
    LET Kept(r) == r[1] \notin removed
        kept == SelectSeq(RecordsOf(data), Kept)
    IN  [i \in 1..Len(kept) |-> <<remap[kept[i][1]], kept[i][2]>>]

\* C3: a remove_class that returns has rewritten every listed file to its old
\* records, in their old order, without the records of the removed classes and
\* with every kept record's class id replaced by its new id, the rest of the
\* line as it was, and nothing after the last kept record; other files are as
\* they were.
C3_RemoveRewrites ==
    (op = "remove_class" /\ err = "none") =>
        \A b \in TxtBases :
            IF b \in Listed
            THEN /\ WellFormed(prev[b].data)
                 /\ txt[b] = File(Render(KeptRenumbered(prev[b].data, arg,
                                    update_classes(classes_config, arg).keep)))
            ELSE txt[b] = prev[b]

\* C3 happens: a record is dropped from a file that keeps another, and a kept
\* record gets a new class id
C3_Witness ==
    /\ op = "remove_class"
    /\ err = "none"
    /\ \E b \in Listed :
          /\ Len(Readlines(txt[b].data)) > 0
          /\ Len(Readlines(txt[b].data)) < Len(Readlines(prev[b].data))
    /\ \E b \in Listed :
          /\ Len(Readlines(txt[b].data)) = 2
          /\ txt[b].data # prev[b].data

\* C5: with an empty Class Config (as JSON2TXT's constructor leaves it),
\* update_classes and remove_class raise ValueError and no file changes.
C5_NoConfigFails ==
    /\ (kind = "JSON2TXT" /\ op = "init") => Len(classes_config) = 0
    /\ (op \in {"update_classes", "remove_class"} /\ Len(classes_config) = 0) =>
          /\ err = "ValueError"
          /\ txt = prev

\* C5 happens: remove_class on a JSON2TXT store whose files hold a class to remove
C5_Witness ==
    /\ kind = "JSON2TXT"
    /\ op = "remove_class"
    /\ err = "ValueError"
    /\ \E b \in Listed :
          /\ WellFormed(txt[b].data)
          /\ \E i \in 1..Len(RecordsOf(txt[b].data)) : RecordsOf(txt[b].data)[i][1] \in arg

\* data has a record whose class id is no key of the dict d
HasUnmapped(data, d) ==
    \E i \in 1..Len(RecordsOf(data)) : ~(\E j \in 1..Len(d) : d[j][1] = RecordsOf(data)[i][1])

\* the records of data with every class id replaced by its value in d
Replaced(data, d) ==
    [i \in 1..Len(RecordsOf(data)) |->
        <<d[CHOOSE j \in 1..Len(d) : d[j][1] = RecordsOf(data)[i][1]][2],
          RecordsOf(data)[i][2]>>]

\* C9: replace_classes rewrites every record's class id by the dict and raises
\* KeyError in the first listed file that has a record whose class id is no
\* key; the files listed after it are as they were, and the files listed
\* before it stay rewritten.
C9_ReplaceStops ==
    op = "replace_classes" =>
        /\ \A b \in TxtBases \ Listed : txt[b] = prev[b]
        /\ err = "none" =>
              \A b \in Listed : txt[b] = File(Render(Replaced(prev[b].data, arg)))
        /\ err # "none" =>
              /\ failedAt \in 1..Len(order)
              /\ \A i \in 1..Len(order) :
                    /\ i > failedAt => txt[order[i]] = prev[order[i]]
                    /\ i < failedAt =>
                          txt[order[i]] = File(Render(Replaced(prev[order[i]].data, arg)))
        /\ (\A b \in Listed : WellFormed(prev[b].data)) =>
              /\ err \in {"none", "KeyError"}
              /\ err = "KeyError" <=> \E b \in Listed : HasUnmapped(prev[b].data, arg)
              /\ err = "KeyError" =>
                    /\ HasUnmapped(prev[order[failedAt]].data, arg)
                    /\ \A i \in 1..(failedAt - 1) : ~HasUnmapped(prev[order[i]].data, arg)

\* C9 happens: the second of three files fails; the first is rewritten and the
\* third, which has a record with no entry too, is untouched
C9_Witness ==
    /\ op = "replace_classes"
    /\ err = "KeyError"
    /\ Len(order) = 3
    /\ failedAt = 2
    /\ txt[order[1]] # prev[order[1]]
    /\ WellFormed(prev[order[3]].data)
    /\ HasUnmapped(prev[order[3]].data, arg)

-----------------------------------------------------------------------------
(* C8: add_txt, under SpecBackfill *)

\* the images the last call's pattern matched
MatchedImages == { i \in images : filename = Star \/ filename = i }

\* C8: add_txt never overwrites: a file that existed keeps its content, every
\* matched image without an annotation file gets an empty one, nothing else
\* is created, and a second run with the same pattern changes nothing.
C8_BackfillKeeps ==
    op = "add_txt" =>
        /\ \A b \in TxtBases : prev[b].exists => txt[b] = prev[b]
        /\ \A i \in MatchedImages :
              /\ txt[get_filename(i)].exists
              /\ ~prev[get_filename(i)].exists => txt[get_filename(i)].data = <<>>
        /\ \A b \in TxtBases :
              (~prev[b].exists /\ ~(\E i \in MatchedImages : get_filename(i) = b))
                  => ~txt[b].exists
        /\ prevCall = <<"add_txt", filename>> => txt = prev

\* C8 happens: one run creates a file for an image that had none and meets an
\* image whose file has content
C8_Witness ==
    /\ op = "add_txt"
    /\ \E i \in MatchedImages : ~prev[get_filename(i)].exists /\ txt[get_filename(i)].exists
    /\ \E i \in MatchedImages : prev[get_filename(i)].exists /\ txt[get_filename(i)].data # <<>>

-----------------------------------------------------------------------------
(* C4: remove_class twice, under SpecIdem *)

\* C4 as claimed: after a first run that returned and the Class Config set to
\* the survivors, a second run with the same to_remove changes no file.
C4_Idempotent ==
    (pc = "done" /\ ret.err = "none") => txt = prev

\* no surviving class was renumbered to an id that is to be removed
NoNewIdRemoved == \A k \in DOMAIN ret.keep : ret.keep[k] \notin arg

\* C4 as amended: after a first run that returned and the Class Config set to
\* the survivors, a second run with the same to_remove changes no file,
\* provided the first run gave no surviving class an id that is in to_remove.
C4_IdempotentIfNoClash ==
    (pc = "done" /\ ret.err = "none" /\ NoNewIdRemoved) => txt = prev

\* C4 happens: the first run removed records, renumbered none into to_remove,
\* and the second run went through files that have records
C4_Witness ==
    /\ pc = "done"
    /\ ret.err = "none"
    /\ ret.changed
    /\ NoNewIdRemoved
    /\ arg # {}
    /\ err = "none"
    /\ \E b \in Listed : txt[b].data # <<>>

-----------------------------------------------------------------------------
(* C6, C7: counter, under SpecCount *)

\* the first tokens of all the lines of the listed files
LeadingTokens(b) == [i \in 1..Len(Readlines(txt[b].data)) |->
                        SplitOnce(Readlines(txt[b].data)[i])[1]]

\* how many lines of the listed files start with the token t
Occurrences(t) ==
    LET Hits(b) == { i \in 1..Len(LeadingTokens(b)) : LeadingTokens(b)[i] = t }
        RECURSIVE Sum(_)
        Sum(S) == IF S = {} THEN 0
                  ELSE LET b == CHOOSE x \in S : TRUE
                       IN  Cardinality(Hits(b)) + Sum(S \ {b})
    IN  Sum(Listed)

\* the pairs of ret have ascending class ids
Ascending == \A i, j \in 1..Len(ret) : i < j => KeyLess(ret[i][1], ret[j][1])

\* C6: with int class ids as knownClasses, counter returns, sorted by class id,
\* a pair (id, count) for every known id, count being the number of lines that
\* start with that id, 0 for an id that never occurs.
C6_CountsKnown ==
    (op = "counter" /\ \A i \in 1..Len(arg) : arg[i][1] = "int") =>
        /\ err = "none"
        /\ Ascending
        /\ \A i \in 1..Len(arg) :
              \E j \in 1..Len(ret) : ret[j] = <<arg[i], Occurrences(Str(arg[i][2]))>>

\* C7: a class id that is not in knownClasses and occurs k times is returned
\* with the count k (1 after its first occurrence).
C7_CountsUnknown ==
    (op = "counter" /\ err = "none") =>
        \A b \in Listed : \A i \in 1..Len(LeadingTokens(b)) :
            LET t == LeadingTokens(b)[i]
            IN  (WellFormed(txt[b].data) /\ ~(\E n \in 1..Len(arg) : arg[n][2] = t)) =>
                    \E j \in 1..Len(ret) : ret[j] = <<StrKey(t), Occurrences(t)>>

-----------------------------------------------------------------------------
(* C10: bbox2yolo, under SpecGeom *)

\* the box <<width, height, xmin, ymin, xmax, ymax>> lies in its image
BoxInImage(a) ==
    /\ a[1] > 0
    /\ a[2] > 0
    /\ a[3] <= a[5]
    /\ a[5] <= a[1]
    /\ a[4] <= a[6]
    /\ a[6] <= a[2]

\* C10: for a box inside an image of positive size, bbox2yolo returns four
\* numbers that each lie in [0, 1].
C10_Normalised ==
    (op = "bbox2yolo" /\ BoxInImage(arg)) =>
        /\ err = "none"
        /\ \A i \in 1..4 : 0 <= ret[i].n /\ ret[i].n <= ret[i].d

\* C10 happens: a box as wide as an image whose 1/width is rounded, lying
\* against the image's lower edge
C10_Witness ==
    /\ op = "bbox2yolo"
    /\ BoxInImage(arg)
    /\ arg[1] = 3
    /\ arg[3] = 0
    /\ arg[5] = 3
    /\ arg[2] = 3
    /\ arg[4] = 3
    /\ arg[6] = 3
    /\ ret[3].n = ret[3].d

====
